---------------------------- MODULE Spec2Model ----------------------------
(***************************************************************************)
(* Model of chatbot-service/chatbot_service.py: the /chat request path     *)
(* (detect_intent, resolve_appointment_base_url, book_appointment_via_api, *)
(* fetch_appointments_via_api, chat) and the Eureka background activity    *)
(* (_start_eureka_background, _eureka_register_instance,                   *)
(* _eureka_heartbeat_loop).                                                *)
(*                                                                         *)
(* Text that the code inspects character by character (the chat message,   *)
(* the configured URLs) is a sequence of one-character strings.  Text the  *)
(* code only assembles (the replies) is a TLA+ string.                     *)
(***************************************************************************)
EXTENDS Integers, Sequences, FiniteSets, TLC

VARIABLES
    envAppt,                      \* os.getenv("APPOINTMENT_SERVICE_BASE_URL")
    envGateway,                   \* os.getenv("API_GATEWAY_URL")
    APPOINTMENT_SERVICE_BASE_URL, \* module global after line 44
    API_GATEWAY_URL,              \* module global after line 43
    EUREKA_SERVER_URL,            \* module global, lines 26-28
    strTypeLax,                   \* whether the installed pydantic coerces numbers to str
    chatPc,                       \* position of the chat handler
    message,                      \* req.message
    intent,                       \* chat's local `intent`
    base_url,                     \* local of book/fetch (lines 70, 94)
    request,                      \* the downstream request issued
    response,                     \* what requests.post/get produced
    returned,                     \* what book/fetch returned, and from which line
    reply,                        \* how chat ended: a ChatResponse or an exception
    startupPc,                    \* position of on_startup
    threads,                      \* threads started by _start_eureka_background
    regPc,                        \* position of the _eureka_register_instance thread
    hbPc,                         \* position of the _eureka_heartbeat_loop thread
    postCount,                    \* registration POSTs issued so far
    putCount,                     \* renewal PUTs issued so far (saturating)
    postOutcome,                  \* outcome of the registration POST
    putOutcome,                   \* outcome of the latest renewal PUT
    registryRequest,              \* the latest request sent to the registry
    sleepFor                      \* argument of the current time.sleep call

cfgVars  == <<envAppt, envGateway, APPOINTMENT_SERVICE_BASE_URL, API_GATEWAY_URL,
              EUREKA_SERVER_URL, strTypeLax>>
chatVars == <<chatPc, message, intent, base_url, request, response, returned, reply>>
regVars  == <<startupPc, threads, regPc, hbPc, postCount, putCount, postOutcome,
              putOutcome, registryRequest, sleepFor>>
vars     == <<cfgVars, chatVars, regVars>>

(***************************************************************************)
(* Python values.                                                          *)
(***************************************************************************)
PyNone      == [t |-> "None"]
PyText(c)   == [t |-> "text", c |-> c]      \* a str the code inspects
PyStr(s)    == [t |-> "str", s |-> s]       \* a str the code passes on
PyNum(n)    == [t |-> "num", n |-> n]
PyBool(b)   == [t |-> "bool", b |-> b]
PyList(a)   == [t |-> "list", a |-> a]
PyDict(o)   == [t |-> "dict", o |-> o]
EmptyDict   == PyDict(<<>>)

\* bool(v): Python truthiness.
Truthy(v) ==
    CASE v.t = "None" -> FALSE
      [] v.t = "text" -> Len(v.c) > 0
      [] v.t = "str"  -> v.s # ""
      [] v.t = "num"  -> v.n # 0
      [] v.t = "bool" -> v.b
      [] v.t = "list" -> Len(v.a) > 0
      [] v.t = "dict" -> DOMAIN v.o # {}

\* `a or b`
PyOr(a, b) == IF Truthy(a) THEN a ELSE b

\* d.get(key) on a dict
DictGet(d, key) == IF key \in DOMAIN d.o THEN d.o[key] ELSE PyNone

\* type(v).__name__ as it appears in an AttributeError
TypeName(v) ==
    CASE v.t = "None" -> "NoneType"
      [] v.t \in {"text", "str"} -> "str"
      [] v.t = "num"  -> "int"
      [] v.t = "bool" -> "bool"
      [] v.t = "list" -> "list"
      [] v.t = "dict" -> "dict"

\* str(v), as an f-string renders it, for None, str, int and bool
Format(v) ==
    CASE v.t = "None" -> "None"
      [] v.t = "str"  -> v.s
      [] v.t = "num"  -> ToString(v.n)
      [] v.t = "bool" -> IF v.b THEN "True" ELSE "False"

(***************************************************************************)
(* Characters and text.                                                    *)
(***************************************************************************)
UpperLetters == <<"A","B","C","D","E","F","G","H","I","J","K","L","M",
                  "N","O","P","Q","R","S","T","U","V","W","X","Y","Z">>
LowerLetters == <<"a","b","c","d","e","f","g","h","i","j","k","l","m",
                  "n","o","p","q","r","s","t","u","v","w","x","y","z">>
Digits       == {"0","1","2","3","4","5","6","7","8","9"}

Range(s)      == {s[i] : i \in DOMAIN s}
IsUpper(c)    == c \in Range(UpperLetters)
Letters       == Range(UpperLetters) \cup Range(LowerLetters)   \* [a-zA-Z]
IsLetter(c)   == c \in Letters
IsDigit(c)    == c \in Digits
IsWordChar(c) == IsLetter(c) \/ IsDigit(c) \/ c = "_"     \* \w
Spaces        == {" ", "\n", "\t", "\r"}                   \* \s, str.strip()
IsSpace(c)    == c \in Spaces

\* one character of str.lower()
LowerChar(c) ==
    IF IsUpper(c)
    THEN LowerLetters[CHOOSE i \in DOMAIN UpperLetters : UpperLetters[i] = c]
    ELSE c

\* str.lower()
lower(s) == [i \in DOMAIN s |-> LowerChar(s[i])]

\* str.strip()
strip(s) ==
    LET keep == {i \in DOMAIN s : ~IsSpace(s[i])}
    IN  IF keep = {} THEN <<>>
        ELSE LET first == CHOOSE i \in keep : \A j \in keep : i <= j
                 last  == CHOOSE i \in keep : \A j \in keep : j <= i
             IN  SubSeq(s, first, last)

\* str.rstrip("/")
rstripSlash(s) ==
    LET keep == {i \in DOMAIN s : s[i] # "/"}
    IN  IF keep = {} THEN <<>>
        ELSE SubSeq(s, 1, CHOOSE i \in keep : \A j \in keep : j <= i)

\* pat occurs in s at index i
OccursAt(s, i, pat) ==
    /\ i >= 1
    /\ i + Len(pat) - 1 <= Len(s)
    /\ SubSeq(s, i, i + Len(pat) - 1) = pat

\* pat (in lower case) occurs in s at index i under re.IGNORECASE
OccursAtNoCase(s, i, pat) ==
    /\ i >= 1
    /\ i + Len(pat) - 1 <= Len(s)
    /\ \A k \in DOMAIN pat : LowerChar(s[i + k - 1]) = pat[k]

\* `pat in s`
Contains(s, pat) == \E i \in 1..(Len(s) + 1) : OccursAt(s, i, pat)

\* \b between s[p] and s[p+1] (p = 0: the start, p = Len(s): the end)
IsWordAt(s, k)   == k \in DOMAIN s /\ IsWordChar(s[k])
AtBoundary(s, p) == IsWordAt(s, p) # IsWordAt(s, p + 1)

\* \b(w)\b matches at index i
WordAt(s, i, w) ==
    /\ OccursAt(s, i, w)
    /\ AtBoundary(s, i - 1)
    /\ AtBoundary(s, i + Len(w) - 1)

\* re.search(r"\b(a1|a2|..)\b.*\b(b1|b2|..)\b", s): `.` matches anything but "\n"
SearchWordsInOrder(s, firsts, seconds) ==
    \E i \in DOMAIN s, w1 \in firsts :
        /\ WordAt(s, i, w1)
        /\ \E j \in (i + Len(w1))..Len(s), w2 \in seconds :
              /\ WordAt(s, j, w2)
              /\ \A k \in (i + Len(w1))..(j - 1) : s[k] # "\n"

(***************************************************************************)
(* detect_intent (lines 49-57).                                            *)
(***************************************************************************)
Greetings  == {<<"h", "i">>, <<"h", "e", "l", "l", "o">>, <<"h", "e", "y">>}
BookVerbs  == {<<"b", "o", "o", "k">>, <<"s", "c", "h", "e", "d", "u", "l", "e">>}
BookNouns  == {<<"a", "p", "p", "o", "i", "n", "t", "m", "e", "n", "t">>,
               <<"a", "p", "p", "t">>}
FetchVerbs == {<<"s", "h", "o", "w">>, <<"l", "i", "s", "t">>, <<"m", "y">>}
FetchNouns == {<<"a", "p", "p", "o", "i", "n", "t", "m", "e", "n", "t", "s">>,
               <<"a", "p", "p", "t", "s">>}
ShowMyAppointments ==
    <<"s", "h", "o", "w", " ", "m", "y", " ",
      "a", "p", "p", "o", "i", "n", "t", "m", "e", "n", "t", "s">>

GreetingRule(text) == \E g \in Greetings : Contains(text, g)
BookRule(text)     == SearchWordsInOrder(text, BookVerbs, BookNouns)
FetchRule(text)    == \/ SearchWordsInOrder(text, FetchVerbs, FetchNouns)
                      \/ Contains(text, ShowMyAppointments)

\* The rules are applied to the stripped, lower-cased text, which a call computes
\* once: the text is bound by the set constructor.
ClassifyBookFirst(text) ==
    IF BookRule(text) THEN "book_appointment"
    ELSE IF GreetingRule(text) THEN "greeting"
    ELSE IF FetchRule(text) THEN "fetch_appointments"
    ELSE "unknown"

detect_intent_book_first(msg) ==
    CHOOSE found \in {ClassifyBookFirst(text) : text \in {lower(strip(msg))}} : TRUE

\* lines 51-57
Classify(text) ==
    IF GreetingRule(text) THEN "greeting"
    ELSE IF BookRule(text) THEN "book_appointment"
    ELSE IF FetchRule(text) THEN "fetch_appointments"
    ELSE "unknown"

\* lines 49-57
detect_intent(msg) ==
    CHOOSE found \in {Classify(text) : text \in {lower(strip(msg))}} : TRUE

(***************************************************************************)
(* Entity extraction in book_appointment_via_api (lines 73-82).            *)
(***************************************************************************)
Min(a, b) == IF a <= b THEN a ELSE b

\* first index k >= i with k > Len(s) or s[k] outside the class: the end of a
\* greedy run
RunEnd(s, i, class) ==
    CHOOSE k \in i..(Len(s) + 1) :
        /\ k = Len(s) + 1 \/ s[k] \notin class
        /\ \A j \in i..(k - 1) : s[j] \in class

\* the match of r"\s+([a-zA-Z]+)" from index b on: {<<start, end>>} of the group
NameAfter(s, b) ==
    UNION {{<<c, d - 1>> : d \in {RunEnd(s, c, Letters)} \ {c}} :
              c \in {RunEnd(s, b, Spaces)} \ {b}}

\* the match of r"dr\.?\s+([a-zA-Z]+)" at index a
NameAfterDr(s, a) ==
    IF OccursAtNoCase(s, a, <<"d", "r">>)
    THEN NameAfter(s, IF a + 2 <= Len(s) /\ s[a + 2] = "." THEN a + 3 ELSE a + 2)
    ELSE {}

\* r"with\s+dr\.?\s+([a-zA-Z]+)" with re.IGNORECASE, anchored at index i: the set
\* holding <<start, end>> of group 1, empty without a match.  Every greedy run has
\* one length that lets the rest match, the whole run.
DoctorMatchAt(s, i) ==
    IF OccursAtNoCase(s, i, <<"w", "i", "t", "h">>)
    THEN UNION {NameAfterDr(s, a) : a \in {RunEnd(s, i + 4, Spaces)} \ {i + 4}}
    ELSE {}

\* re.search(...): the leftmost match; group(1) if doctor_match else None
doctor_name_of(msg) ==
    LET groups == UNION {{<<i, m[1], m[2]>> : m \in DoctorMatchAt(msg, i)} :
                            i \in DOMAIN msg}
    IN  IF groups = {} THEN PyNone
        ELSE LET g == CHOOSE h \in groups : \A k \in groups : h[1] <= k[1]
             IN  PyText(SubSeq(msg, g[2], g[3]))

\* \d{4}-\d{2}-\d{2} at index i
IsoDateAt(s, i) ==
    /\ i + 9 <= Len(s)
    /\ \A k \in {0, 1, 2, 3, 5, 6, 8, 9} : IsDigit(s[i + k])
    /\ s[i + 4] = "-"
    /\ s[i + 7] = "-"

\* length of the match of r"\b(today|tomorrow|\d{4}-\d{2}-\d{2})\b" at i, else 0
DateMatchLen(s, i) ==
    LET bounded(n) == AtBoundary(s, i - 1) /\ AtBoundary(s, i + n - 1)
    IN  IF OccursAtNoCase(s, i, <<"t", "o", "d", "a", "y">>) /\ bounded(5) THEN 5
        ELSE IF OccursAtNoCase(s, i, <<"t", "o", "m", "o", "r", "r", "o", "w">>)
                /\ bounded(8)
             THEN 8
        ELSE IF IsoDateAt(s, i) /\ bounded(10) THEN 10
        ELSE 0

date_str_of(msg) ==
    LET hits == {i \in DOMAIN msg : DateMatchLen(msg, i) > 0}
    IN  IF hits = {} THEN PyNone
        ELSE LET i == CHOOSE h \in hits : \A g \in hits : h <= g
             IN  PyText(SubSeq(msg, i, i + DateMatchLen(msg, i) - 1))

(***************************************************************************)
(* Configuration (lines 37-46) and the resolver (lines 60-66).             *)
(***************************************************************************)
_normalize_base_url(url) ==
    IF ~Truthy(url) THEN PyNone ELSE PyText(rstripSlash(url.c))

AppointmentsPath == <<"/", "a", "p", "p", "o", "i", "n", "t", "m", "e", "n", "t", "s">>
FallbackUrl ==
    <<"h", "t", "t", "p", ":", "/", "/", "a", "p", "p", "o", "i", "n", "t", "m", "e",
      "n", "t", "-", "s", "e", "r", "v", "i", "c", "e", ":", "8", "0", "8", "3">>

resolve_gateway_first ==
    IF Truthy(API_GATEWAY_URL)
    THEN PyText(API_GATEWAY_URL.c \o AppointmentsPath)
    ELSE IF Truthy(APPOINTMENT_SERVICE_BASE_URL)
    THEN APPOINTMENT_SERVICE_BASE_URL
    ELSE PyText(FallbackUrl)

resolve_appointment_base_url ==
    IF Truthy(APPOINTMENT_SERVICE_BASE_URL)
    THEN APPOINTMENT_SERVICE_BASE_URL
    ELSE IF Truthy(API_GATEWAY_URL)
    THEN PyText(API_GATEWAY_URL.c \o AppointmentsPath)
    ELSE PyText(FallbackUrl)

(***************************************************************************)
(* What the downstream appointment service can do to a request.            *)
(***************************************************************************)
Raised(text)           == [kind |-> "exception", text |-> text]
Responded(status, body) == [kind |-> "response", status |-> status, body |-> body]
Malformed              == [json |-> FALSE]     \* resp.json() raises
Json(value)            == [json |-> TRUE, value |-> value]

JsonErrorText == "Expecting value: line 1 column 1 (char 0)"
NoGet(v)      == "'" \o TypeName(v) \o "' object has no attribute 'get'"

(***************************************************************************)
(* book_appointment_via_api from the return of requests.post (84-90).      *)
(***************************************************************************)
BookStatusFailure(status) ==
    "Sorry, I couldn't book the appointment right now (status "
        \o ToString(status) \o ")."
BookError(text) ==
    "Sorry, something went wrong while booking the appointment: " \o text
BookSubmitted == "Your appointment request has been submitted."

\* what a call of book/fetch gives back: the value and the line of its `return`
Ret(line, value) == [line |-> line, value |-> value]

book_appointment_unguarded(outcome) ==
    IF outcome.kind = "exception" THEN Ret(90, PyStr(BookError(outcome.text)))
    ELSE IF ~outcome.body.json THEN Ret(90, PyStr(BookError(JsonErrorText)))
    ELSE IF outcome.body.value.t # "dict"
         THEN Ret(90, PyStr(BookError(NoGet(outcome.body.value))))
    ELSE Ret(88, PyOr(DictGet(outcome.body.value, "message"), PyStr(BookSubmitted)))

book_appointment_get_default(outcome) ==
    IF outcome.kind = "exception" THEN Ret(90, PyStr(BookError(outcome.text)))
    ELSE IF outcome.status >= 400
         THEN Ret(86, PyStr(BookStatusFailure(outcome.status)))
    ELSE IF ~outcome.body.json THEN Ret(90, PyStr(BookError(JsonErrorText)))
    ELSE IF outcome.body.value.t # "dict"
         THEN Ret(90, PyStr(BookError(NoGet(outcome.body.value))))
    ELSE Ret(88, IF "message" \in DOMAIN outcome.body.value.o
                 THEN outcome.body.value.o["message"]
                 ELSE PyStr(BookSubmitted))

book_appointment_via_api(outcome) ==
    IF outcome.kind = "exception" THEN Ret(90, PyStr(BookError(outcome.text)))
    ELSE IF outcome.status >= 400
         THEN Ret(86, PyStr(BookStatusFailure(outcome.status)))
    ELSE IF ~outcome.body.json THEN Ret(90, PyStr(BookError(JsonErrorText)))
    ELSE IF outcome.body.value.t # "dict"
         THEN Ret(90, PyStr(BookError(NoGet(outcome.body.value))))
    ELSE Ret(88, PyOr(DictGet(outcome.body.value, "message"), PyStr(BookSubmitted)))

(***************************************************************************)
(* fetch_appointments_via_api from the return of requests.get (96-110).    *)
(***************************************************************************)
FetchStatusFailure(status) ==
    "Couldn't fetch appointments (status " \o ToString(status) \o ")."
FetchError(text) ==
    "Sorry, something went wrong while fetching appointments: " \o text
FetchHeader == "Here are your upcoming appointments:\n"
NoUpcoming  == "You have no upcoming appointments."
ListLimit   == 5

\* lines 104-106 for one entry
AppointmentLine(appt) ==
    LET doctor == PyOr(PyOr(DictGet(appt, "doctorName"), DictGet(appt, "doctor")),
                       DictGet(appt, "doctor_id"))
        date   == PyOr(DictGet(appt, "date"), DictGet(appt, "appointmentDate"))
    IN  "- " \o Format(date) \o " with Dr. " \o Format(doctor)

RECURSIVE JoinLines(_)
\* "\n".join(lines)
JoinLines(lines) ==
    IF Len(lines) = 0 THEN ""
    ELSE IF Len(lines) = 1 THEN lines[1]
    ELSE lines[1] \o "\n" \o JoinLines(Tail(lines))

\* lines 101-108 on the parsed body, without the [:5]
FormatAppointmentsNoLimit(data) ==
    IF data.t = "list" /\ Truthy(data)
    THEN LET shown == data.a
             bad   == {i \in DOMAIN shown : shown[i].t # "dict"}
         IN  IF bad # {}
             THEN Ret(110, PyStr(FetchError(
                      NoGet(shown[CHOOSE i \in bad : \A j \in bad : i <= j]))))
             ELSE Ret(107, PyStr(FetchHeader
                      \o JoinLines([i \in DOMAIN shown |-> AppointmentLine(shown[i])])))
    ELSE Ret(108, PyStr(NoUpcoming))

\* lines 101-108 on the parsed body; appt.get on an entry that is no dict raises
FormatAppointments(data) ==
    IF data.t = "list" /\ Truthy(data)
    THEN LET shown == SubSeq(data.a, 1, Min(ListLimit, Len(data.a)))
             bad   == {i \in DOMAIN shown : shown[i].t # "dict"}
         IN  IF bad # {}
             THEN Ret(110, PyStr(FetchError(
                      NoGet(shown[CHOOSE i \in bad : \A j \in bad : i <= j]))))
             ELSE Ret(107, PyStr(FetchHeader
                      \o JoinLines([i \in DOMAIN shown |-> AppointmentLine(shown[i])])))
    ELSE Ret(108, PyStr(NoUpcoming))

fetch_appointments_via_api(outcome) ==
    IF outcome.kind = "exception" THEN Ret(110, PyStr(FetchError(outcome.text)))
    ELSE IF outcome.status >= 400
         THEN Ret(98, PyStr(FetchStatusFailure(outcome.status)))
    ELSE IF ~outcome.body.json THEN Ret(110, PyStr(FetchError(JsonErrorText)))
    ELSE FormatAppointments(outcome.body.value)

(***************************************************************************)
(* chat (lines 113-122).                                                   *)
(***************************************************************************)
GreetingReply == "Hello! How can I help you today?"
UnknownReply  == "I'm not sure how to help with that yet."
RequestTimeout == 10

NoReply      == [kind |-> "none"]
Replied(s)   == [kind |-> "response", response |-> s]
RaisedOut(e) == [kind |-> "raised", error |-> e]
NoRequest    == [method |-> "none"]
NoOutcome    == [kind |-> "none"]
NoReturn     == [line |-> 0, value |-> PyNone]

\* ChatResponse(response=v): pydantic validates the field as str
ChatResponse(v) ==
    IF v.t = "str" THEN Replied(v.s)
    ELSE IF v.t \in {"num", "bool"} /\ strTypeLax THEN Replied(Format(v))
    ELSE RaisedOut("ValidationError")

\* a /chat request reaches the handler (the request body was validated: a str)
ChatReceive(m) ==
    /\ startupPc = "done"       \* the server accepts requests after on_startup
    /\ chatPc = "idle"
    /\ chatPc' = "received"
    /\ message' = m
    /\ UNCHANGED <<intent, base_url, request, response, returned, reply>>
    /\ UNCHANGED <<cfgVars, regVars>>

\* lines 115-122 up to the downstream call (lines 70-84, 94-96)
ChatDispatch ==
    /\ chatPc = "received"
    /\ LET found == detect_intent(message)
           base  == resolve_appointment_base_url
       IN  /\ intent' = found
           /\ \/ /\ found = "greeting"
                 /\ reply' = ChatResponse(PyStr(GreetingReply))
                 /\ chatPc' = "done"
                 /\ UNCHANGED <<base_url, request>>
              \/ /\ found = "book_appointment"
                 /\ base_url' = base
                 /\ request' = [method  |-> "POST",
                                url     |-> base.c \o <<"/", "b", "o", "o", "k">>,
                                json    |-> [doctorName |-> doctor_name_of(message),
                                             date       |-> date_str_of(message)],
                                timeout |-> RequestTimeout]
                 /\ chatPc' = "waiting"
                 /\ UNCHANGED reply
              \/ /\ found = "fetch_appointments"
                 /\ base_url' = base
                 /\ request' = [method |-> "GET", url |-> base.c,
                                timeout |-> RequestTimeout]
                 /\ chatPc' = "waiting"
                 /\ UNCHANGED reply
              \/ /\ found = "unknown"
                 /\ reply' = ChatResponse(PyStr(UnknownReply))
                 /\ chatPc' = "done"
                 /\ UNCHANGED <<base_url, request>>
    /\ UNCHANGED <<message, response, returned>>
    /\ UNCHANGED <<cfgVars, regVars>>

\* requests.post/get returns or raises; the rest of book/fetch and of chat
ChatDownstreamReturn(outcome) ==
    /\ chatPc = "waiting"
    /\ response' = outcome
    /\ LET got == IF intent = "book_appointment"
                  THEN book_appointment_via_api(outcome)
                  ELSE fetch_appointments_via_api(outcome)
       IN  returned' = got /\ reply' = ChatResponse(got.value)
    /\ chatPc' = "done"
    /\ UNCHANGED <<message, intent, base_url, request>>
    /\ UNCHANGED <<cfgVars, regVars>>

\* the downstream call ends in one of `outcomes`
ChatReturns(outcomes) ==
    /\ chatPc = "waiting"
    /\ \E o \in outcomes : ChatDownstreamReturn(o)

\* the transport has sent the outcome; the handler is free for the next request
ChatFinish ==
    /\ chatPc = "done"
    /\ chatPc' = "idle"
    /\ message' = <<>>
    /\ intent' = "none"
    /\ base_url' = PyNone
    /\ request' = NoRequest
    /\ response' = NoOutcome
    /\ returned' = NoReturn
    /\ reply' = NoReply
    /\ UNCHANGED <<cfgVars, regVars>>

(***************************************************************************)
(* Eureka registration and heartbeat (lines 137-196).                      *)
(***************************************************************************)
HeartbeatInterval == 30
RegistryTimeout   == 5
MaxPuts           == 3      \* putCount stops counting here; the loop does not stop

RegistryOutcomes == {"2xx", "non2xx", "timeout", "connection_error"}

\* with the defaults of lines 24, 25 and 29: EUREKA_APP_NAME.upper() and
\* f"{SERVICE_HOSTNAME}:{EUREKA_APP_NAME}:{SERVICE_PORT}"
AppsPath     == <<"/", "a", "p", "p", "s", "/">>
AppNameUpper == <<"C", "H", "A", "T", "B", "O", "T", "-", "S", "E", "R", "V", "I", "C", "E">>
InstanceId   ==
    <<"l", "o", "c", "a", "l", "h", "o", "s", "t", ":", "c", "h", "a", "t", "b", "o",
      "t", "-", "s", "e", "r", "v", "i", "c", "e", ":", "8", "0", "8", "5">>

\* a startup that starts the threads without looking at the URL
OnStartupUnguarded ==
    /\ startupPc = "pending"
    /\ startupPc' = "start_register"
    /\ UNCHANGED <<threads, regPc, hbPc, postCount, putCount, postOutcome,
                   putOutcome, registryRequest, sleepFor>>
    /\ UNCHANGED <<cfgVars, chatVars>>

\* on_startup -> _start_eureka_background, lines 187-188
OnStartup ==
    /\ startupPc = "pending"
    /\ startupPc' = IF ~Truthy(EUREKA_SERVER_URL) THEN "done" ELSE "start_register"
    /\ UNCHANGED <<threads, regPc, hbPc, postCount, putCount, postOutcome,
                   putOutcome, registryRequest, sleepFor>>
    /\ UNCHANGED <<cfgVars, chatVars>>

\* a start that waits for the registration thread to finish (Thread.start + join)
StartRegisterThreadJoined ==
    \/ /\ startupPc = "start_register"
       /\ threads' = threads \cup {"register"}
       /\ regPc' = "entry"
       /\ startupPc' = "join_register"
       /\ UNCHANGED <<hbPc, postCount, putCount, postOutcome, putOutcome,
                      registryRequest, sleepFor>>
       /\ UNCHANGED <<cfgVars, chatVars>>
    \/ /\ startupPc = "join_register"
       /\ regPc = "returned"
       /\ startupPc' = "start_heartbeat"
       /\ UNCHANGED <<threads, regPc, hbPc, postCount, putCount, postOutcome,
                      putOutcome, registryRequest, sleepFor>>
       /\ UNCHANGED <<cfgVars, chatVars>>

\* line 190: threading.Thread(target=_eureka_register_instance, daemon=True).start()
StartRegisterThread ==
    /\ startupPc = "start_register"
    /\ threads' = threads \cup {"register"}
    /\ regPc' = "entry"
    /\ startupPc' = "start_heartbeat"
    /\ UNCHANGED <<hbPc, postCount, putCount, postOutcome, putOutcome,
                   registryRequest, sleepFor>>
    /\ UNCHANGED <<cfgVars, chatVars>>

\* line 191: threading.Thread(target=_eureka_heartbeat_loop, daemon=True).start()
StartHeartbeatThread ==
    /\ startupPc = "start_heartbeat"
    /\ threads' = threads \cup {"heartbeat"}
    /\ hbPc' = "entry"
    /\ startupPc' = "done"
    /\ UNCHANGED <<regPc, postCount, putCount, postOutcome, putOutcome,
                   registryRequest, sleepFor>>
    /\ UNCHANGED <<cfgVars, chatVars>>

\* _eureka_register_instance up to the call of requests.post (lines 138-164)
RegisterEnter ==
    /\ regPc = "entry"
    /\ IF ~Truthy(EUREKA_SERVER_URL)
       THEN regPc' = "returned" /\ UNCHANGED <<postCount, registryRequest>>
       ELSE /\ regPc' = "posting"
            /\ postCount' = postCount + 1
            /\ registryRequest' =
                   [method  |-> "POST",
                    url     |-> rstripSlash(EUREKA_SERVER_URL.c) \o AppsPath
                                   \o AppNameUpper,
                    timeout |-> RegistryTimeout]
    /\ UNCHANGED <<startupPc, threads, hbPc, putCount, postOutcome, putOutcome,
                   sleepFor>>
    /\ UNCHANGED <<cfgVars, chatVars>>

\* requests.post returns or raises; either way the function returns (164-167)
RegisterReturn(outcome) ==
    /\ regPc = "posting"
    /\ postOutcome' = outcome
    /\ regPc' = "returned"
    /\ UNCHANGED <<startupPc, threads, hbPc, postCount, putCount, putOutcome,
                   registryRequest, sleepFor>>
    /\ UNCHANGED <<cfgVars, chatVars>>

\* _eureka_heartbeat_loop before the loop (lines 171-175)
HeartbeatEnter ==
    /\ hbPc = "entry"
    /\ hbPc' = IF ~Truthy(EUREKA_SERVER_URL) THEN "returned" ELSE "loop"
    /\ UNCHANGED <<startupPc, threads, regPc, postCount, putCount, postOutcome,
                   putOutcome, registryRequest, sleepFor>>
    /\ UNCHANGED <<cfgVars, chatVars>>

\* lines 177-179: the renewal PUT is issued
HeartbeatPut ==
    /\ hbPc = "loop"
    /\ hbPc' = "putting"
    /\ putCount' = Min(putCount + 1, MaxPuts)
    /\ registryRequest' =
           [method  |-> "PUT",
            url     |-> rstripSlash(EUREKA_SERVER_URL.c) \o AppsPath \o AppNameUpper
                           \o <<"/">> \o InstanceId,
            timeout |-> RegistryTimeout]
    /\ UNCHANGED <<startupPc, threads, regPc, postCount, postOutcome, putOutcome,
                   sleepFor>>
    /\ UNCHANGED <<cfgVars, chatVars>>

\* a loop that lets a failed renewal end the thread
HeartbeatPutReturnUncaught(outcome) ==
    /\ hbPc = "putting"
    /\ putOutcome' = outcome
    /\ IF outcome \in {"timeout", "connection_error"}
       THEN hbPc' = "returned" /\ UNCHANGED sleepFor
       ELSE hbPc' = "sleeping" /\ sleepFor' = HeartbeatInterval
    /\ UNCHANGED <<startupPc, threads, regPc, postCount, putCount, postOutcome,
                   registryRequest>>
    /\ UNCHANGED <<cfgVars, chatVars>>

\* requests.put returns or raises (179-182), then time.sleep(30) starts (183)
HeartbeatPutReturn(outcome) ==
    /\ hbPc = "putting"
    /\ putOutcome' = outcome
    /\ hbPc' = "sleeping"
    /\ sleepFor' = HeartbeatInterval
    /\ UNCHANGED <<startupPc, threads, regPc, postCount, putCount, postOutcome,
                   registryRequest>>
    /\ UNCHANGED <<cfgVars, chatVars>>

\* time.sleep returns; back to the top of `while True`
HeartbeatWake ==
    /\ hbPc = "sleeping"
    /\ hbPc' = "loop"
    /\ sleepFor' = 0
    /\ UNCHANGED <<startupPc, threads, regPc, postCount, putCount, postOutcome,
                   putOutcome, registryRequest>>
    /\ UNCHANGED <<cfgVars, chatVars>>

StartupStep   == OnStartup \/ StartRegisterThread \/ StartHeartbeatThread
RegisterStep  == RegisterEnter \/ \E o \in RegistryOutcomes : RegisterReturn(o)
HeartbeatStep == \/ HeartbeatEnter
                 \/ HeartbeatPut
                 \/ \E o \in RegistryOutcomes : HeartbeatPutReturn(o)
                 \/ HeartbeatWake

(***************************************************************************)
(* Inputs.                                                                 *)
(***************************************************************************)
RECURSIVE Flatten(_)
Flatten(chunks) ==
    IF Len(chunks) = 0 THEN <<>> ELSE Head(chunks) \o Flatten(Tail(chunks))

SeqsUpTo(S, n) == UNION {[1..k -> S] : k \in 0..n}

\* messages for the service as a whole: one or two per intent
MsgHello    == <<"H", "e", "l", "l", "o">>
MsgBook     == <<"b", "o", "o", "k", " ", "a", "p", "p", "t">>
MsgBookFull ==
    <<"B", "o", "o", "k", " ", "a", "p", "p", "t", " ", "w", "i", "t", "h", " ",
      "D", "r", ".", " ", "L", "e", "e", " ", "2", "0", "2", "4", "-", "0", "5", "-",
      "0", "1">>
MsgFetch    == <<"m", "y", " ", "a", "p", "p", "t", "s">>
MsgOther    == <<"w", "e", "a", "t", "h", "e", "r">>
Messages    == {MsgHello, MsgBook, MsgBookFull, MsgFetch, MsgOther}

\* appointment entries of a listing
EntryNamed == PyDict([doctorName |-> PyStr("Lee"), date |-> PyStr("2024-05-01")])
EntryAlias == PyDict([doctor |-> PyStr("Kim"), appointmentDate |-> PyStr("2024-06-02")])
EntryId    == PyDict([doctorName |-> PyNone, doctor_id |-> PyNum(7),
                      date |-> PyStr("2024-07-03")])
EntryBlank == PyDict([doctorName |-> PyStr(""), doctor |-> PyStr("Roy"),
                      date |-> PyStr(""), appointmentDate |-> PyStr("2024-08-04")])
EntryEmpty == EmptyDict
EntryText  == PyStr("oops")

\* values a body's `message` field can hold
MessageValues ==
    {PyNone, PyStr(""), PyStr("Booked!"), PyStr(BookSubmitted),
     PyStr(BookStatusFailure(500)), PyNum(0), PyNum(7), PyBool(FALSE), PyBool(TRUE),
     PyList(<<>>), PyList(<<PyStr("Booked!")>>), EmptyDict,
     PyDict([text |-> PyStr("Booked!")])}

ObjectBodies ==
    {EmptyDict, PyDict([id |-> PyNum(1)])}
        \cup {PyDict([message |-> v]) : v \in MessageValues}
        \cup {PyDict([message |-> v, id |-> PyNum(1)]) : v \in {PyNone, PyStr("Booked!")}}
ScalarBodies == {PyNone, PyStr("ok"), PyNum(0), PyNum(3), PyBool(TRUE)}

TransportErrors == {"Read timed out.", "Connection refused"}
Statuses        == {200, 201, 399, 400, 404, 500}

MaxList == 6
ListEntries == {EntryNamed, EntryAlias, EntryBlank, EntryText}
ListBodies  == {PyList(a) : a \in SeqsUpTo(ListEntries, MaxList)}
                  \cup {PyList(<<EntryId>>), PyList(<<EntryEmpty, EntryId>>)}

Bodies(values) == {Malformed} \cup {Json(v) : v \in values}
Outcomes(values) ==
    {Raised(e) : e \in TransportErrors}
        \cup {Responded(st, b) : st \in Statuses, b \in Bodies(values)}

\* what the downstream service does in the model of the whole service
ServiceOutcomes ==
    {Raised("Read timed out."), Responded(500, Malformed), Responded(200, Malformed),
     Responded(201, Json(PyDict([message |-> PyStr("Booked!")]))),
     Responded(200, Json(PyDict([message |-> PyList(<<PyStr("Booked!")>>)]))),
     Responded(200, Json(PyList(<<EntryNamed, EntryAlias>>))),
     Responded(200, Json(PyList(<<>>)))}

\* what it can do to one chat request
ChatOutcomes == Outcomes(ObjectBodies \cup ScalarBodies \cup ListBodies)

(***************************************************************************)
(* The service: startup, the registry threads and the chat handler.        *)
(***************************************************************************)
UrlE == <<"h", "t", "t", "p", ":", "/", "/", "e", "/">>
UrlA == <<"h", "t", "t", "p", ":", "/", "/", "a", "/">>

ChatIdle ==
    /\ chatPc = "idle"
    /\ message = <<>>
    /\ intent = "none"
    /\ base_url = PyNone
    /\ request = NoRequest
    /\ response = NoOutcome
    /\ returned = NoReturn
    /\ reply = NoReply

RegistryUnstarted ==
    /\ threads = {}
    /\ regPc = "unstarted"
    /\ hbPc = "unstarted"
    /\ postCount = 0
    /\ putCount = 0
    /\ postOutcome = "none"
    /\ putOutcome = "none"
    /\ registryRequest = NoRequest
    /\ sleepFor = 0

\* module import, lines 24-46
LoadConfig(appt, gateway, eureka) ==
    /\ envAppt = appt
    /\ envGateway = gateway
    /\ APPOINTMENT_SERVICE_BASE_URL = _normalize_base_url(appt)
    /\ API_GATEWAY_URL = _normalize_base_url(gateway)
    /\ EUREKA_SERVER_URL = eureka

Init ==
    /\ \E appt \in {PyNone, PyText(UrlA)},
          eureka \in {PyNone, PyText(<<>>), PyText(UrlE)} :
              LoadConfig(appt, PyNone, eureka)
    /\ strTypeLax = FALSE
    /\ startupPc = "pending"
    /\ RegistryUnstarted
    /\ ChatIdle

ChatStep ==
    \/ \E m \in Messages : ChatReceive(m)
    \/ ChatDispatch
    \/ ChatReturns(ServiceOutcomes)
    \/ ChatFinish

Next == StartupStep \/ RegisterStep \/ HeartbeatStep \/ ChatStep

Spec == Init /\ [][Next]_vars

\* the scheduler runs every started thread, every sleep ends and every call to the
\* registry returns or raises within its timeout
SpecFair == Spec /\ WF_vars(StartupStep) /\ WF_vars(RegisterStep) /\ WF_vars(HeartbeatStep)

(***************************************************************************)
(* One chat request against every behaviour of the downstream service.     *)
(***************************************************************************)
Received(msgs) ==
    /\ chatPc = "received"
    /\ message \in msgs
    /\ intent = "none"
    /\ base_url = PyNone
    /\ request = NoRequest
    /\ response = NoOutcome
    /\ returned = NoReturn
    /\ reply = NoReply

InitChat ==
    /\ LoadConfig(PyNone, PyNone, PyNone)
    /\ strTypeLax \in BOOLEAN
    /\ startupPc = "done"
    /\ RegistryUnstarted
    /\ Received(Messages)

NextChat == ChatDispatch \/ ChatReturns(ChatOutcomes)

SpecChat == InitChat /\ [][NextChat]_vars

(***************************************************************************)
(* Classification of many messages.                                        *)
(***************************************************************************)
MaxChunks == 5
Vocabulary ==
    {<<"h", "i">>, <<"H", "E", "Y">>, <<"h", "e", "l", "l", "o">>,
     <<"b", "o", "o", "k">>, <<"a", "p", "p", "t">>, <<"a", "p", "p", "t", "s">>,
     <<"m", "y">>, <<" ">>}
\* messages that need the other words of the rules, a line break or more text
OtherMessages ==
    {MsgBookFull, <<"x">> \o ShowMyAppointments \o <<"x">>,
     <<"H", "I", " ">> \o ShowMyAppointments,
     <<"b", "o", "o", "k", "\n", "a", "p", "p", "t">>,
     <<"m", "y", "\n", "a", "p", "p", "t", "s">>,
     <<" ", "S", "c", "h", "e", "d", "u", "l", "e", " ", "a", "n", " ",
       "a", "p", "p", "o", "i", "n", "t", "m", "e", "n", "t", "\n">>,
     <<"l", "i", "s", "t", " ", "a", "p", "p", "o", "i", "n", "t", "m", "e", "n", "t", "s">>,
     <<"t", "h", "i", "s", " ", "l", "i", "s", "t", " ", "a", "p", "p", "t", "s">>}
IntentMessages == {Flatten(c) : c \in SeqsUpTo(Vocabulary, MaxChunks)} \cup OtherMessages

InitIntent ==
    /\ LoadConfig(PyNone, PyNone, PyNone)
    /\ strTypeLax = FALSE
    /\ startupPc = "done"
    /\ RegistryUnstarted
    /\ Received(IntentMessages)

NextIntent == ChatDispatch

SpecIntent == InitIntent /\ [][NextIntent]_vars

(***************************************************************************)
(* Resolution of the base URL under many configurations.                   *)
(***************************************************************************)
MaxUrlLen == 3
UrlChars  == {"a", "/"}
EnvValues == {PyNone} \cup {PyText(u) : u \in SeqsUpTo(UrlChars, MaxUrlLen)}

InitResolve ==
    /\ \E appt \in EnvValues, gateway \in EnvValues : LoadConfig(appt, gateway, PyNone)
    /\ strTypeLax = FALSE
    /\ startupPc = "done"
    /\ RegistryUnstarted
    /\ Received(Messages)

NextResolve == ChatDispatch

SpecResolve == InitResolve /\ [][NextResolve]_vars

(***************************************************************************)
(* Properties.                                                             *)
(***************************************************************************)

\* C1: every chat request ends with a response whose value is a string; the
\* handler never ends by raising, whatever the downstream service did.
ChatNeverRaises ==
    chatPc = "done" => reply.kind = "response"

\* a request that ended in the exception of ChatResponse's validation
ChatRaised ==
    /\ chatPc = "done"
    /\ reply.kind = "raised"
    /\ returned.line = 88

\* C2: with a registry URL, every sleep of the heartbeat loop lasts 30 seconds and,
\* whatever the outcome of the renewal before it, is followed by another renewal
\* PUT; renewals are issued again and again, forever.
RegistryUrlSet == EUREKA_SERVER_URL # PyNone /\ EUREKA_SERVER_URL.c # <<>>

HeartbeatForever ==
    /\ [](hbPc = "sleeping" => sleepFor = HeartbeatInterval)
    /\ \A o \in RegistryOutcomes :
           (hbPc = "sleeping" /\ putOutcome = o) ~> (hbPc = "putting")
    /\ (RegistryUrlSet => []<>(hbPc = "putting"))

\* a renewal in flight after a failed registration and a failed renewal
RenewalAfterFailures ==
    /\ hbPc = "putting"
    /\ putCount >= 2
    /\ putOutcome = "timeout"
    /\ postOutcome = "connection_error"

\* C3: without a registry URL no background thread is ever started and no request
\* is ever sent to the registry.
NoRegistryWithoutUrl ==
    ~RegistryUrlSet =>
        /\ threads = {}
        /\ regPc = "unstarted"
        /\ hbPc = "unstarted"
        /\ postCount = 0
        /\ putCount = 0
        /\ registryRequest = NoRequest

\* the service is up and has answered a request, with no registry URL
RunningWithoutRegistry ==
    /\ ~RegistryUrlSet
    /\ startupPc = "done"
    /\ chatPc = "done"

\* C4: startup, the chat handler and the two registry threads never wait for one
\* another: whichever of them has a step left can take it in every reachable
\* state, whatever the others are doing.
NeverBlocked ==
    /\ startupPc # "done" => ENABLED StartupStep
    /\ (startupPc = "done" \/ chatPc # "idle") => ENABLED ChatStep
    /\ regPc \in {"entry", "posting"} => ENABLED RegisterStep
    /\ hbPc \in {"entry", "loop", "putting", "sleeping"} => ENABLED HeartbeatStep

\* a chat request has been answered while the registration POST and a renewal PUT
\* are both still waiting for the registry
AnsweredWhileRegistryPending ==
    /\ chatPc = "done"
    /\ reply.kind = "response"
    /\ regPc = "posting"
    /\ hbPc = "putting"

\* C10: at most one registration POST is issued, and no renewal PUT is issued
\* before the registration POST.
RegisterBeforeHeartbeat ==
    /\ postCount <= 1
    /\ putCount > 0 => postCount > 0

\* C5: the resolver returns the direct URL without its trailing slashes when a
\* direct URL is configured, else <gateway>/appointments when a gateway URL is
\* configured, else the fallback; it never returns nothing or an empty string.  A
\* URL is configured when the variable is set to more than slashes.
Configured(env) == env # PyNone /\ \E i \in DOMAIN env.c : env.c[i] # "/"

\* r is u without its trailing slashes
IsNormalized(r, u) ==
    /\ Len(r) <= Len(u)
    /\ \A i \in DOMAIN r : r[i] = u[i]
    /\ r # <<>> => r[Len(r)] # "/"
    /\ \A i \in (Len(r) + 1)..Len(u) : u[i] = "/"

ResolverPrecedence ==
    chatPc = "waiting" =>
        /\ base_url # PyNone
        /\ base_url.c # <<>>
        /\ IF Configured(envAppt) THEN IsNormalized(base_url.c, envAppt.c)
           ELSE IF Configured(envGateway)
                THEN \E g \in SeqsUpTo(UrlChars, MaxUrlLen) :
                         /\ IsNormalized(g, envGateway.c)
                         /\ base_url.c = g \o AppointmentsPath
           ELSE base_url.c = FallbackUrl

\* both URLs are configured, the direct one with a trailing slash
DirectOverGateway ==
    /\ chatPc = "waiting"
    /\ Configured(envAppt)
    /\ Configured(envGateway)
    /\ envAppt.c[Len(envAppt.c)] = "/"

\* a 2xx-3xx answer whose body is a JSON object
BookSucceeded ==
    /\ chatPc = "done"
    /\ intent = "book_appointment"
    /\ response.kind = "response"
    /\ response.status < 400
    /\ response.body.json
    /\ response.body.value.t = "dict"

HasMessage == "message" \in DOMAIN response.body.value.o

\* C6 as stated: on success the `message` field of the body is returned verbatim
\* whenever the body has one, and the generic confirmation otherwise.
BookMessageVerbatim ==
    BookSucceeded =>
        IF HasMessage
        THEN returned.value = response.body.value.o["message"]
        ELSE returned.value = PyStr("Your appointment request has been submitted.")

\* C6 amended: on success the `message` field is returned verbatim when the body
\* has one and its value is truthy; the generic confirmation is returned when the
\* body has no `message` field or a falsy one (null, false, 0, "", [], {}).
BookMessageTruthyVerbatim ==
    BookSucceeded =>
        IF HasMessage /\ Truthy(response.body.value.o["message"])
        THEN returned.value = response.body.value.o["message"]
        ELSE returned.value = PyStr("Your appointment request has been submitted.")

\* HTTP 201 with {"message": "Booked!"} gave "Booked!"
BookedVerbatim ==
    /\ BookSucceeded
    /\ response.status = 201
    /\ HasMessage
    /\ returned.value = PyStr("Booked!")
    /\ reply = Replied("Booked!")

\* a 2xx-3xx answer to the listing whose body parses
FetchSucceeded ==
    /\ chatPc = "done"
    /\ intent = "fetch_appointments"
    /\ response.kind = "response"
    /\ response.status < 400
    /\ response.body.json

\* the first of the values that is present and not null, None if there is none
RECURSIVE FirstPresent(_, _)
FirstPresent(appt, keys) ==
    IF Len(keys) = 0 THEN PyNone
    ELSE IF Head(keys) \in DOMAIN appt.o /\ appt.o[Head(keys)] # PyNone
         THEN appt.o[Head(keys)]
         ELSE FirstPresent(appt, Tail(keys))

\* the first of the values that is truthy, else the last one (None when absent)
RECURSIVE FirstTruthy(_, _)
FirstTruthy(appt, keys) ==
    LET v == IF Head(keys) \in DOMAIN appt.o THEN appt.o[Head(keys)] ELSE PyNone
    IN  IF Len(keys) = 1 \/ Truthy(v) THEN v ELSE FirstTruthy(appt, Tail(keys))

DoctorKeys == <<"doctorName", "doctor", "doctor_id">>
DateKeys   == <<"date", "appointmentDate">>

\* the header and one line for each date and doctor
Listing(dates, doctors) ==
    "Here are your upcoming appointments:\n"
        \o JoinLines([i \in DOMAIN dates |->
               "- " \o Format(dates[i]) \o " with Dr. " \o Format(doctors[i])])

\* C7 as stated: a list of n >= 1 entries is rendered as the header and one line for
\* each of the first min(n, 5) entries, in order, with the first non-absent doctor
\* and date; an empty or absent list gives the no-appointments message.
FetchListingFirstNonAbsent ==
    FetchSucceeded =>
        LET data == response.body.value
        IN  IF data.t = "list" /\ Len(data.a) >= 1
            THEN /\ \A i \in 1..Min(5, Len(data.a)) : data.a[i].t = "dict"
                 /\ returned.value =
                        PyStr(Listing(
                            [i \in 1..Min(5, Len(data.a)) |->
                                FirstPresent(data.a[i], DateKeys)],
                            [i \in 1..Min(5, Len(data.a)) |->
                                FirstPresent(data.a[i], DoctorKeys)]))
            ELSE returned.value = PyStr("You have no upcoming appointments.")

\* C7 amended: a list of n >= 1 entries is rendered as the header and one line for
\* each of the first min(n, 5) entries, in order, with the first truthy doctor and
\* date (else the last alias, None when absent), provided those entries are
\* objects; if one of them is not, the reply is the fetch-failure message; an
\* empty or absent list gives the no-appointments message.
FetchListingFirstTruthy ==
    FetchSucceeded =>
        LET data == response.body.value
        IN  IF data.t = "list" /\ Len(data.a) >= 1
            THEN IF \A i \in 1..Min(5, Len(data.a)) : data.a[i].t = "dict"
                 THEN returned.value =
                          PyStr(Listing(
                              [i \in 1..Min(5, Len(data.a)) |->
                                  FirstTruthy(data.a[i], DateKeys)],
                              [i \in 1..Min(5, Len(data.a)) |->
                                  FirstTruthy(data.a[i], DoctorKeys)]))
                 ELSE \E i \in 1..Min(5, Len(data.a)) :
                          /\ data.a[i].t # "dict"
                          /\ returned.value =
                                 PyStr("Sorry, something went wrong while fetching "
                                       \o "appointments: '" \o TypeName(data.a[i])
                                       \o "' object has no attribute 'get'")
            ELSE returned.value = PyStr("You have no upcoming appointments.")

\* a list of more than five objects was rendered
LongListingRendered ==
    /\ FetchSucceeded
    /\ response.body.value.t = "list"
    /\ Len(response.body.value.a) > 5
    /\ \A i \in 1..5 : response.body.value.a[i].t = "dict"
    /\ returned.line = 107

\* C8: every message gets one of the four intents; a message with hi, hello or hey
\* anywhere in it, in any case, is a greeting even if the booking or the listing
\* pattern matches too; booking is found only without a greeting, listing only
\* without a greeting and without the booking pattern.
HasGreeting(msg) ==
    \E g \in Greetings, i \in DOMAIN msg : OccursAtNoCase(msg, i, g)

IntentFirstMatchWins ==
    chatPc \in {"waiting", "done"} =>
        LET text == lower(strip(message))
        IN  /\ intent \in {"greeting", "book_appointment", "fetch_appointments",
                           "unknown"}
            /\ HasGreeting(message) <=> intent = "greeting"
            /\ intent = "book_appointment" <=> ~HasGreeting(message) /\ BookRule(text)
            /\ intent = "fetch_appointments" <=>
                   ~HasGreeting(message) /\ ~BookRule(text) /\ FetchRule(text)

\* an upper-case greeting won over the booking pattern
GreetingOverBooking ==
    /\ chatPc = "done"
    /\ intent = "greeting"
    /\ BookRule(lower(strip(message)))
    /\ \E i \in DOMAIN message : OccursAt(message, i, <<"H", "E", "Y">>)

\* C9: a downstream status >= 400 makes book and fetch return their status-failure
\* message with that status, whatever the body; with a status below 400 neither
\* returns from its status-failure branch.
StatusFailureIffStatus ==
    (chatPc = "done" /\ response.kind = "response") =>
        IF response.status >= 400
        THEN returned =
                 IF intent = "book_appointment"
                 THEN Ret(86, PyStr("Sorry, I couldn't book the appointment right now (status "
                                       \o ToString(response.status) \o ")."))
                 ELSE Ret(98, PyStr("Couldn't fetch appointments (status "
                                       \o ToString(response.status) \o ")."))
        ELSE returned.line \notin {86, 98}

\* a 500 whose body is a well-formed success body
FailureStatusWithBody ==
    /\ chatPc = "done"
    /\ response.kind = "response"
    /\ response.status = 500
    /\ response.body = Json(PyDict([message |-> PyStr("Booked!")]))
    /\ reply.kind = "response"

=============================================================================
